---- MODULE Spec2Model ----
(***************************************************************************)
(* A model of the Mozambique flood-mapping extractor:                      *)
(*   extract_mozambique_osm.py  (state store, merge, retry loop,           *)
(*                               normalizer, aggregator, main)             *)
(*   compute_centroids.py       (compute_centroid, process_geojson)        *)
(*                                                                         *)
(* Python values are encoded as follows.                                   *)
(*   dict            a function whose DOMAIN is the set of keys present,   *)
(*                   so d["k"] on a missing key (KeyError) and d.get("k")  *)
(*                   (None) are told apart by "k" \in DOMAIN d             *)
(*   None            the string "None" for string-valued fields, the       *)
(*                   number NoTimestamp for timestamps and dates           *)
(*   list            a sequence                                            *)
(*   timestamp       the integer YYYYMMDDHH; ts[:10] is ts \div 100 and    *)
(*                   ts[:13] is ts itself (minutes are not modelled)       *)
(*   coordinates     a one-field record whose field names the nesting      *)
(*                   depth of the JSON array: [d1 |-> <<x, y>>] a          *)
(*                   position, [d2 |-> ...] a list of positions, [d3 |->   *)
(*                   ...] a list of rings or lines, [d4 |-> ...] a list of *)
(*                   polygons; [mean |-> <<sx, sy, n>>] is the position    *)
(*                   [sx / n, sy / n] of a float division                  *)
(*   raise           a result record of kind "raise"                       *)
(***************************************************************************)
EXTENDS Integers, Sequences, FiniteSets, TLC

None == "None"
NoTimestamp == 0

\* ------------------------------------------------------------------ bounds
MaxElems == 2      \* elements in one remote response
MaxLen == 2        \* features in a baseline / batch handed to merge_geojson
MaxPts == 2        \* vertices in one ring or line handed to compute_centroid
MaxUsers == 21     \* contributors in one collection handed to the aggregator

\* --------------------------------------------------------------- constants
FLOOD_START_DATE == 20260121
max_retries == 3
TopN == 20

\* ----------------------------------------------------------------- helpers
\* dict.get(k) for string-valued entries
Get(d, k) == IF k \in DOMAIN d THEN d[k] ELSE None

\* dict.get("timestamp") / dict.get("last_update")
GetTs(d, k) == IF k \in DOMAIN d THEN d[k] ELSE NoTimestamp

\* ts[:10], the date part of an ISO timestamp
DatePart(ts) == ts \div 100

SeqsUpTo(S, n) == UNION {[1..k -> S] : k \in 0..n}

\* --------------------------------------------------- remote records (pool)
Tags == [building |-> "yes"]
Ring4 == <<[lon |-> 0, lat |-> 0], [lon |-> 0, lat |-> 2],
           [lon |-> 2, lat |-> 2], [lon |-> 0, lat |-> 0]>>
Ring3 == <<[lon |-> 0, lat |-> 0], [lon |-> 0, lat |-> 2],
           [lon |-> 0, lat |-> 0]>>

ElNode1v1 == [type |-> "node", id |-> "1", timestamp |-> 2026012110,
              version |-> "1", changeset |-> "70", user |-> "ana",
              uid |-> "11", lon |-> 33, lat |-> 25, tags |-> Tags]
ElNode1v2 == [type |-> "node", id |-> "1", timestamp |-> 2026012309,
              version |-> "2", changeset |-> "71", user |-> "bo",
              uid |-> "12", lon |-> 34, lat |-> 25, tags |-> Tags]
ElWay2Closed == [type |-> "way", id |-> "2", timestamp |-> 2026012309,
                 version |-> "1", changeset |-> "72", user |-> "ana",
                 uid |-> "11", geometry |-> Ring4, tags |-> Tags]
ElWay2Three == [type |-> "way", id |-> "2", timestamp |-> 2026012317,
                version |-> "2", changeset |-> "73", user |-> "bo",
                uid |-> "12", geometry |-> Ring3]
ElRel3 == [type |-> "relation", id |-> "3", timestamp |-> 2026012317,
           version |-> "1", changeset |-> "74", uid |-> "13",
           bounds |-> [minlon |-> 0, minlat |-> 0, maxlon |-> 2, maxlat |-> 4]]
\* records without an id: the identity key is (None, "node")
ElNoIdA == [type |-> "node", version |-> "1", user |-> "ana",
            lon |-> 30, lat |-> 20]
ElNoIdB == [type |-> "node", version |-> "2", user |-> "cy",
            timestamp |-> 2026012110, lon |-> 31, lat |-> 20]
\* records from which no geometry is derived
ElUnknownKind == [type |-> "area", id |-> "4", user |-> "ana"]
ElWayNoGeom == [type |-> "way", id |-> "5", user |-> "ana"]
ElRelNoBounds == [type |-> "relation", id |-> "6", user |-> "ana"]
\* records missing what the conversion indexes directly
ElNoKind == [id |-> "7", user |-> "ana", lon |-> 33, lat |-> 25]
ElNodeNoCoord == [type |-> "node", id |-> "8", user |-> "ana"]
ElWayEmpty == [type |-> "way", id |-> "9", user |-> "ana", geometry |-> <<>>]

WellFormedPool == {ElNode1v1, ElNode1v2, ElWay2Closed, ElWay2Three, ElRel3,
                   ElNoIdA, ElNoIdB}
NoGeometryPool == {ElUnknownKind, ElWayNoGeom, ElRelNoBounds}
MalformedPool == {ElNoKind, ElNodeNoCoord, ElWayEmpty}
ElementPool == WellFormedPool \cup NoGeometryPool \cup MalformedPool

\* ------------------------------------------------------ Feature Normalizer
FlattenKeys == {"name", "building", "highway", "waterway", "landuse", "amenity"}

\* lines 187-207: the properties of the feature built from one element
ElementProperties(element) ==
  LET base == [osm_id |-> Get(element, "id"),
               osm_type |-> Get(element, "type"),
               timestamp |-> GetTs(element, "timestamp"),
               version |-> Get(element, "version"),
               changeset |-> Get(element, "changeset"),
               user |-> Get(element, "user"),
               uid |-> Get(element, "uid")]
  IN IF "tags" \in DOMAIN element
       THEN LET tags == element["tags"]
                flat == [k \in FlattenKeys \cap DOMAIN tags |-> tags[k]]
            IN base @@ [tags |-> tags] @@ flat
       ELSE base

\* lines 217: [[pt["lon"], pt["lat"]] for pt in element["geometry"]]
WayCoords(g) == [i \in 1..Len(g) |-> <<g[i]["lon"], g[i]["lat"]>>]

\* lines 210-242: "raise" when the code indexes a missing key or an empty
\* list, "none" when feature["geometry"] stays None, else the geometry
ElementGeometry(element) ==
  IF "type" \notin DOMAIN element THEN [kind |-> "raise"]
  ELSE IF element["type"] = "node" THEN
    IF {"lon", "lat"} \subseteq DOMAIN element
      THEN [kind |-> "geom", type |-> "Point",
            coordinates |-> [d1 |-> <<element["lon"], element["lat"]>>]]
      ELSE [kind |-> "raise"]
  ELSE IF element["type"] = "way" THEN
    IF "geometry" \in DOMAIN element THEN
      IF \E i \in 1..Len(element["geometry"]) :
            ~ ({"lon", "lat"} \subseteq DOMAIN element["geometry"][i])
        THEN [kind |-> "raise"]
      ELSE LET coords == WayCoords(element["geometry"])
           IN IF Len(coords) = 0 THEN [kind |-> "raise"]
              ELSE IF coords[1] = coords[Len(coords)] /\ Len(coords) > 3
                THEN [kind |-> "geom", type |-> "Polygon",
                      coordinates |-> [d3 |-> <<coords>>]]
                ELSE [kind |-> "geom", type |-> "LineString",
                      coordinates |-> [d2 |-> coords]]
    ELSE [kind |-> "none"]
  ELSE IF element["type"] = "relation" THEN
    IF "bounds" \in DOMAIN element THEN
      LET b == element["bounds"]
      IN [kind |-> "geom", type |-> "Polygon",
          coordinates |-> [d3 |-> << << <<b["minlon"], b["minlat"]>>,
                                        <<b["maxlon"], b["minlat"]>>,
                                        <<b["maxlon"], b["maxlat"]>>,
                                        <<b["minlon"], b["maxlat"]>>,
                                        <<b["minlon"], b["minlat"]>> >> >>]]
    ELSE [kind |-> "none"]
  ELSE [kind |-> "none"]

\* the feature appended at line 245 for an element that has a geometry
ElementFeature(element) ==
  LET g == ElementGeometry(element)
  IN [type |-> "Feature",
      properties |-> ElementProperties(element),
      geometry |-> [type |-> g.type, coordinates |-> g.coordinates]]

Raised == [kind |-> "raise", features |-> <<>>]
Returned(features) == [kind |-> "ok", features |-> features]

RECURSIVE ConvertElements(_)
\* the loop of lines 186-245 over a list of elements: the features appended
\* so far, or Raised as soon as one element raises
ConvertElements(elements) ==
  IF elements = <<>> THEN Returned(<<>>)
  ELSE LET g == ElementGeometry(Head(elements))
           rest == ConvertElements(Tail(elements))
       IN IF g.kind = "raise" \/ rest.kind = "raise" THEN Raised
          ELSE IF g.kind = "geom"
            THEN Returned(<<ElementFeature(Head(elements))>> \o rest.features)
            ELSE rest

\* osm_to_geojson_with_timestamps(osm_data): the "features" of the returned
\* collection (its metadata block is constant apart from the extraction
\* time, which nothing reads back), or Raised
osm_to_geojson_with_timestamps(elements) == ConvertElements(elements)

FeaturePool == {ElementFeature(e) : e \in WellFormedPool}

\* ------------------------------------------------------------ Merge Engine
\* lines 89 and 96
Key(f) == <<Get(f.properties, "osm_id"), Get(f.properties, "osm_type")>>

\* feature_index[key] = f on an insertion-ordered dict
IndexPut(index, f) ==
  IF \E i \in 1..Len(index) : Key(index[i]) = Key(f)
    THEN [i \in 1..Len(index) |->
            IF Key(index[i]) = Key(f) THEN f ELSE index[i]]
    ELSE Append(index, f)

RECURSIVE IndexAll(_, _)
\* the loops of lines 88-90 and 95-102
IndexAll(index, features) ==
  IF features = <<>> THEN index
  ELSE IndexAll(IndexPut(index, Head(features)), Tail(features))

\* "not existing": None and the empty dict are falsy
EmptyDict == [kind |-> "emptydict", features |-> <<>>]
NoCollection == [kind |-> "None", features |-> <<>>]
Collection(features) == [kind |-> "collection", features |-> features]
Truthy(existing) == existing.kind = "collection"

\* merge_geojson(existing, new_features): the returned collection
merge_geojson(existing, new_features) ==
  IF ~ Truthy(existing)
    THEN Collection(new_features)
    ELSE Collection(IndexAll(IndexAll(<<>>, existing.features), new_features))

\* -------------------------------------------------------- Geometry Reducer
NoneResult == [kind |-> "none"]
RaiseResult == [kind |-> "raise"]
Value(coords) == [kind |-> "value", val |-> coords]

RECURSIVE SumAt(_, _)
\* sum(pt[k] for pt in ring)
SumAt(ring, k) ==
  IF ring = <<>> THEN 0 ELSE Head(ring)[k] + SumAt(Tail(ring), k)

\* [sum_x / len(ring), sum_y / len(ring)]
Mean(ring) == [mean |-> <<SumAt(ring, 1), SumAt(ring, 2), Len(ring)>>]

\* compute_centroid(geometry), for a geometry whose coordinates, when
\* present, have the nesting depth of its type
compute_centroid(geometry) ==
  LET geom_type == Get(geometry, "type")
      has == "coordinates" \in DOMAIN geometry
      coords == geometry["coordinates"]
  IN IF geom_type = "Point" THEN
       IF has THEN Value(coords) ELSE NoneResult
     ELSE IF geom_type = "Polygon" THEN
       \* coords[0] on None (TypeError) or on an empty list (IndexError)
       IF ~ has THEN RaiseResult
       ELSE IF Len(coords.d3) = 0 THEN RaiseResult
       ELSE LET ring == coords.d3[1]
            IN IF Len(ring) = 0 THEN NoneResult ELSE Value(Mean(ring))
     ELSE IF geom_type = "MultiPolygon" THEN
       IF has /\ Len(coords.d4) > 0 /\ Len(coords.d4[1]) > 0
              /\ Len(coords.d4[1][1]) > 0
         THEN Value(Mean(coords.d4[1][1]))
         ELSE NoneResult
     ELSE IF geom_type = "LineString" THEN
       IF has /\ Len(coords.d2) > 0
         THEN Value([d1 |-> coords.d2[(Len(coords.d2) \div 2) + 1]])
         ELSE NoneResult
     ELSE IF geom_type = "MultiLineString" THEN
       IF has /\ Len(coords.d3) > 0 /\ Len(coords.d3[1]) > 0
         THEN LET line == coords.d3[1]
              IN Value([d1 |-> line[(Len(line) \div 2) + 1]])
         ELSE NoneResult
     ELSE NoneResult

\* -------------------------------------------------- Centroid Reduction Pass
\* line 78, the default filter, for a feature whose "properties", when
\* present, is a dict: f.get("properties", {}).get("building") is not None
default_filter(f) ==
  /\ "properties" \in DOMAIN f
  /\ Get(f.properties, "building") # None

\* "not geometry" at line 90: the key is missing, or its value is None or {}
NoGeometry(f) ==
  \/ "geometry" \notin DOMAIN f
  \/ DOMAIN f.geometry = {}

\* "not centroid_coords" at line 96: None or an empty list
NoCentroid(res) ==
  \/ res.kind = "none"
  \/ res.kind = "value" /\ "d1" \in DOMAIN res.val /\ res.val.d1 = <<>>

\* lines 101-108
centroid_feature(f, centroid_coords) ==
  [type |-> "Feature",
   properties |-> f.properties,
   geometry |-> [type |-> "Point", coordinates |-> centroid_coords]]

ProcessRaised ==
  [kind |-> "raise", features |-> <<>>, feature_count |-> 0, skipped |-> 0,
   returned |-> 0]
\* lines 111-138: the output collection with its metadata count, the
\* number reported as skipped and the value returned
ProcessDone(centroids, skipped) ==
  [kind |-> "ok", features |-> centroids, feature_count |-> Len(centroids),
   skipped |-> skipped, returned |-> Len(centroids)]

RECURSIVE ProcessLoop(_, _, _)
\* the loop of lines 84-109; an exception of compute_centroid ends the call
\* before line 126 opens the output file
ProcessLoop(features, centroids, skipped) ==
  IF features = <<>> THEN ProcessDone(centroids, skipped)
  ELSE LET feature == Head(features)
           rest == Tail(features)
       IN IF ~ default_filter(feature)
            THEN ProcessLoop(rest, centroids, skipped)
          ELSE IF NoGeometry(feature)
            THEN ProcessLoop(rest, centroids, skipped + 1)
          ELSE LET res == compute_centroid(feature.geometry)
               IN IF res.kind = "raise" THEN ProcessRaised
                  ELSE IF NoCentroid(res)
                    THEN ProcessLoop(rest, centroids, skipped + 1)
                  ELSE ProcessLoop(rest,
                         Append(centroids, centroid_feature(feature, res.val)),
                         skipped)

\* process_geojson(input_path, output_path) with feature_filter=None, for an
\* input file holding a collection of the given features
process_geojson(features) == ProcessLoop(features, <<>>, 0)

\* --------------------------------------------------- Contribution Aggregator
\* props.get("user", "unknown")
UserOf(f) == IF "user" \in DOMAIN f.properties THEN f.properties["user"]
             ELSE "unknown"

\* users[user], the number of features of one contributor
UserCount(features, u) ==
  Cardinality({i \in 1..Len(features) : UserOf(features[i]) = u})

\* the position at which the dict "users" first saw the contributor
UserFirst(features, u) ==
  CHOOSE i \in 1..Len(features) :
    UserOf(features[i]) = u /\ \A j \in 1..(i - 1) : UserOf(features[j]) # u

\* dates[date], the number of timestamped features of one day
DateCount(features, d) ==
  Cardinality({i \in 1..Len(features) :
                 DatePart(GetTs(features[i].properties, "timestamp")) = d})

RECURSIVE SortUsers(_, _)
\* sorted(users.items(), key=lambda x: -x[1]): a stable sort of the dict's
\* items, which are in first-encounter order
SortUsers(features, remaining) ==
  IF remaining = {} THEN <<>>
  ELSE LET top == CHOOSE u \in remaining : \A w \in remaining :
                    \/ UserCount(features, u) > UserCount(features, w)
                    \/ /\ UserCount(features, u) = UserCount(features, w)
                       /\ UserFirst(features, u) <= UserFirst(features, w)
       IN <<[user |-> top, count |-> UserCount(features, top)]>>
            \o SortUsers(features, remaining \ {top})

RECURSIVE SortDates(_, _)
\* sorted(dates.items())
SortDates(features, remaining) ==
  IF remaining = {} THEN <<>>
  ELSE LET d == CHOOSE x \in remaining : \A y \in remaining : x <= y
           item == [date |-> d, count |-> DateCount(features, d)]
       IN << item >> \o SortDates(features, remaining \ {d})

\* sorted(...) without the slice
PrefixWhole(s, n) == s

\* [:n]
Prefix(s, n) == IF Len(s) <= n THEN s ELSE SubSeq(s, 1, n)

NoFeatures == [error |-> "No features found"]

\* analyze_contributions(geojson)
analyze_contributions(features) ==
  IF Len(features) = 0 THEN NoFeatures
  ELSE LET users == {UserOf(features[i]) : i \in 1..Len(features)}
           dated == {i \in 1..Len(features) :
                       GetTs(features[i].properties, "timestamp") # NoTimestamp}
           dates == {DatePart(GetTs(features[i].properties, "timestamp")) : i \in dated}
           date_series == SortDates(features, dates)
       IN [total_features |-> Len(features),
           unique_contributors |-> Cardinality(users),
           top_contributors |-> Prefix(SortUsers(features, users), TopN),
           edits_by_date |-> date_series,
           earliest |-> IF dates = {} THEN NoTimestamp ELSE date_series[1].date,
           latest |-> IF dates = {} THEN NoTimestamp
                      ELSE date_series[Len(date_series)].date]

\* ------------------------------------------------------------- State Store
\* a file on disk: absent, unparsable, or holding a JSON document
EmptyState == [k \in {} |-> NoTimestamp]
AbsentFile(filler) == [kind |-> "absent", doc |-> filler]
CorruptFile(filler) == [kind |-> "corrupt", doc |-> filler]
\* json.dump(doc, f)
JsonDump(doc) == [kind |-> "json", doc |-> doc]

\* load_state() without the except clause of lines 48-49
load_state_uncaught(file) ==
  IF file.kind = "absent" THEN [kind |-> "ok", state |-> EmptyState]
  ELSE IF file.kind = "corrupt" THEN [kind |-> "raise", state |-> EmptyState]
  ELSE [kind |-> "ok", state |-> file.doc]

\* load_state(): {} when the file is absent or json.load raises
\* JSONDecodeError / IOError, else the parsed document
load_state(file) ==
  IF file.kind = "absent" THEN [kind |-> "ok", state |-> EmptyState]
  ELSE IF file.kind = "corrupt" THEN [kind |-> "ok", state |-> EmptyState]
  ELSE [kind |-> "ok", state |-> file.doc]

\* load_existing_geojson(filepath)
load_existing_geojson(file) ==
  IF file.kind \in {"absent", "corrupt"} THEN NoCollection ELSE file.doc

\* ------------------------------------------------------------------- state
VARIABLES
  collFile,          \* mozambique_flood_mapping.geojson
  stateFile,         \* .osm_update_state.json
  statsFile,         \* mozambique_mapping_stats.json
  pc,                \* position of main()
  exit,              \* how the last run ended
  full_refresh, state, start_date, existing_geojson, new_geojson, geojson,
  attempt, requests, sleeps, outcomes, qret,   \* query_osm_with_metadata
  stateReads, stateWrites, collWrites,   \* file accesses of the current run
  snapColl, snapState, snapStats,   \* the files as the current run found them
  mA, mB, mOnce, mTwice, mpc,       \* merge_geojson applied to given inputs
  nIn, nOut, npc,                   \* the normalizer applied to a given input
  cGeom, cRes, cpc,                 \* compute_centroid applied to a given input
  aIn, aOut, apc,                   \* analyze_contributions applied to an input
  pIn, pOut, ppc                    \* process_geojson applied to a given input

files == <<collFile, stateFile, statsFile>>
locals == <<full_refresh, state, start_date, existing_geojson, new_geojson, geojson>>
query == <<attempt, requests, sleeps, outcomes, qret>>
snaps == <<snapColl, snapState, snapStats>>
io == <<stateReads, stateWrites, collWrites>>
mainVars == <<files, pc, exit, locals, query, snaps, io>>
mergeVars == <<mA, mB, mOnce, mTwice, mpc>>
normVars == <<nIn, nOut, npc>>
centroidVars == <<cGeom, cRes, cpc>>
statsVars == <<aIn, aOut, apc>>
processVars == <<pIn, pOut, ppc>>
pureVars == <<mergeVars, normVars, centroidVars, statsVars, processVars>>
vars == <<mainVars, pureVars>>

\* what the remote service may answer to a full or incremental query
Responses == SeqsUpTo({ElNode1v1, ElNode1v2, ElNoIdA, ElNodeNoCoord},
                      MaxElems)

\* datetime.now(timezone.utc) at line 373
Nows == {2026012309, 2026012417}

NoSnapshot == [kind |-> "cleared", doc |-> NoCollection]

MainIdle ==
  /\ collFile = AbsentFile(NoCollection)
  /\ stateFile = AbsentFile(EmptyState)
  /\ statsFile = AbsentFile(NoFeatures)
  /\ pc = "idle" /\ exit = "none"
  /\ full_refresh = FALSE /\ state = EmptyState /\ start_date = NoTimestamp
  /\ existing_geojson = NoCollection /\ new_geojson = NoCollection
  /\ geojson = NoCollection
  /\ attempt = 0 /\ requests = 0 /\ sleeps = <<>> /\ outcomes = <<>>
  /\ qret = "none"
  /\ stateReads = 0 /\ stateWrites = 0 /\ collWrites = 0
  /\ snapColl = NoSnapshot /\ snapState = NoSnapshot /\ snapStats = NoSnapshot

MergeIdle ==
  /\ mA = NoCollection /\ mB = <<>> /\ mOnce = NoCollection
  /\ mTwice = NoCollection /\ mpc = "off"

NormIdle == nIn = <<>> /\ nOut = Returned(<<>>) /\ npc = "off"

CentroidIdle == cGeom = [type |-> None] /\ cRes = NoneResult /\ cpc = "off"

StatsIdle == aIn = <<>> /\ aOut = NoFeatures /\ apc = "off"

ProcessIdle == pIn = <<>> /\ pOut = ProcessRaised /\ ppc = "off"

\* ------------------------------------------------------------------ main()
ResetLocals ==
  /\ full_refresh' = FALSE /\ state' = EmptyState /\ start_date' = NoTimestamp
  /\ existing_geojson' = NoCollection /\ new_geojson' = NoCollection
  /\ geojson' = NoCollection
  /\ stateReads' = 0 /\ stateWrites' = 0 /\ collWrites' = 0

ResetQuery ==
  /\ attempt' = 0 /\ requests' = 0 /\ sleeps' = <<>> /\ outcomes' = <<>>
  /\ qret' = "none"

ClearSnapshot ==
  /\ snapColl' = NoSnapshot /\ snapState' = NoSnapshot /\ snapStats' = NoSnapshot

\* an uncaught exception ends the run
Crash(where) == pc' = "idle" /\ exit' = where /\ ResetLocals /\ ResetQuery

\* lines 306-343: read the state, decide the start date, load the baseline
MainStart ==
  /\ pc = "idle"
  /\ UNCHANGED pureVars
  /\ snapColl' = collFile /\ snapState' = stateFile /\ snapStats' = statsFile
  /\ UNCHANGED files
  /\ \E full \in BOOLEAN :
       LET loaded == load_state(stateFile)
           last_update == GetTs(loaded.state, "last_update")
           existing == load_existing_geojson(collFile)
       IN IF loaded.kind = "raise" THEN Crash("crash_start")
          ELSE /\ pc' = "query" /\ exit' = "running"
               /\ full_refresh' = full
               /\ state' = loaded.state
               /\ new_geojson' = NoCollection /\ geojson' = NoCollection
               /\ stateReads' = 1 /\ stateWrites' = 0 /\ collWrites' = 0
               /\ ResetQuery
               /\ IF full
                    THEN /\ start_date' = FLOOD_START_DATE
                         /\ existing_geojson' = NoCollection
                    ELSE IF last_update # NoTimestamp
                      THEN /\ existing_geojson' = existing
                           /\ start_date' = IF Truthy(existing)
                                              THEN DatePart(last_update)
                                              ELSE FLOOD_START_DATE
                      ELSE /\ start_date' = FLOOD_START_DATE
                           /\ existing_geojson' = NoCollection

\* ------------------------------------------- query_osm_with_metadata, loop
Timeout == [kind |-> "timeout", status |-> 0]
Ok == [kind |-> "ok", status |-> 200]
ConnectionError == [kind |-> "connection", status |-> 0]
HTTPError(status) == [kind |-> "http", status |-> status]
ErrorStatuses == {404, 429, 500}

\* the retry test without the "- 1"
CanRetryOffByOne(a) == a < max_retries

\* the retry test with "<=" for "<"
CanRetryUpToLast(a) == a <= max_retries - 1

\* lines 162 and 170
CanRetry(a) == a < max_retries - 1

\* the status test of line 169 if it took every error status for transient
RetryableStatusAnyError(status) == status >= 400

\* line 169
RetryableStatus(status) == status = 429 \/ status >= 500

\* one request was posted and answered with outcome o
Posted(o) ==
  /\ pc = "query"
  /\ requests' = requests + 1
  /\ outcomes' = Append(outcomes, o)
  /\ UNCHANGED <<files, exit, locals, snaps, io, pureVars>>

\* time.sleep(wait) and the next iteration of "for attempt in
\* range(max_retries)"; when the range is exhausted the function returns None
SleepAndLoop(wait) ==
  /\ sleeps' = Append(sleeps, wait)
  /\ attempt' = attempt + 1
  /\ IF attempt + 1 < max_retries
       THEN pc' = "query" /\ qret' = qret
       ELSE pc' = "convert" /\ qret' = "none_returned"

Reraise(o) ==
  /\ pc' = "query_raised" /\ qret' = "raised"
  /\ UNCHANGED <<attempt, sleeps>>

\* lines 158-160
QueryReturns ==
  /\ Posted(Ok)
  /\ pc' = "convert" /\ qret' = "returned"
  /\ UNCHANGED <<attempt, sleeps>>

\* lines 161-167
QueryTimeout ==
  /\ Posted(Timeout)
  /\ IF CanRetry(attempt) THEN SleepAndLoop(30 * (attempt + 1))
     ELSE Reraise(Timeout)

\* lines 168-177
QueryHTTPError ==
  \E status \in ErrorStatuses :
    /\ Posted(HTTPError(status))
    /\ IF RetryableStatus(status) /\ CanRetry(attempt)
         THEN SleepAndLoop(60 * (attempt + 1))
         ELSE Reraise(HTTPError(status))

\* any other requests exception is caught by no handler of the loop
QueryOtherError ==
  /\ Posted(ConnectionError)
  /\ Reraise(ConnectionError)

\* the handler of lines 352-354 if it recorded the attempt in the state file
MainQueryFailedSavingState ==
  /\ pc = "query_raised"
  /\ pc' = "idle" /\ exit' = "query_error"
  /\ stateFile' = JsonDump([last_update |-> 2026012309, feature_count |-> 0])
  /\ ResetLocals /\ ResetQuery
  /\ UNCHANGED <<collFile, statsFile, snaps, pureVars>>

\* lines 352-354: except RequestException: print, return
MainQueryFailed ==
  /\ pc = "query_raised"
  /\ pc' = "idle" /\ exit' = "query_error"
  /\ ResetLocals /\ ResetQuery
  /\ UNCHANGED <<files, snaps, pureVars>>

\* lines 356-365: the body received at line 160 is drawn here, where it is
\* first read; osm_data.get on a None result is an AttributeError
MainConvert ==
  /\ pc = "convert"
  /\ UNCHANGED <<files, snaps, pureVars>>
  /\ IF qret # "returned" THEN Crash("crash_convert")
     ELSE \E osm_data \in Responses :
       LET converted == osm_to_geojson_with_timestamps(osm_data)
       IN IF converted.kind = "raise" THEN Crash("crash_convert")
          ELSE /\ new_geojson' = Collection(converted.features)
               /\ geojson' = IF Truthy(existing_geojson) /\ ~ full_refresh
                               THEN merge_geojson(existing_geojson, converted.features)
                               ELSE Collection(converted.features)
               /\ pc' = "persist"
               /\ ResetQuery
               /\ UNCHANGED <<exit, full_refresh, state, start_date,
                              existing_geojson, io>>

\* the run if it recorded the update time before saving the collection
MainSaveStateBeforeGeojson ==
  /\ pc = "persist"
  /\ stateFile' = JsonDump([last_update |-> 2026012309,
                            feature_count |-> Len(geojson.features)] @@ state)
  /\ stateWrites' = stateWrites + 1
  /\ pc' = "save_state"
  /\ ClearSnapshot
  /\ UNCHANGED <<collFile, statsFile, exit, locals, query, stateReads,
                 collWrites, pureVars>>

\* lines 368-370
MainSaveGeojson ==
  /\ pc = "persist"
  /\ collFile' = JsonDump(geojson)
  /\ collWrites' = collWrites + 1
  /\ pc' = "save_state"
  /\ ClearSnapshot
  /\ UNCHANGED <<stateFile, statsFile, exit, locals, query, stateReads,
                 stateWrites, pureVars>>

\* lines 373-376
MainSaveState ==
  /\ pc = "save_state"
  /\ \E now \in Nows :
       /\ state' = [last_update |-> now,
                    feature_count |-> Len(geojson.features)] @@ state
       /\ stateFile' = JsonDump(state')
  /\ stateWrites' = stateWrites + 1
  /\ pc' = "stats"
  /\ UNCHANGED <<collFile, statsFile, exit, full_refresh, start_date,
                 existing_geojson, new_geojson, geojson, query, snaps,
                 stateReads, collWrites, pureVars>>

\* lines 379-385
MainSaveStats ==
  /\ pc = "stats"
  /\ statsFile' = JsonDump(analyze_contributions(geojson.features))
  /\ pc' = "idle" /\ exit' = "done"
  /\ ResetLocals
  /\ UNCHANGED <<collFile, stateFile, query, snaps, pureVars>>

\* between two runs the files may be removed or damaged from outside: the
\* conditions lines 44-49 and 61-66 provide for
Tamper ==
  /\ pc = "idle"
  /\ \/ /\ stateFile' \in {AbsentFile(EmptyState), CorruptFile(EmptyState)}
        /\ UNCHANGED <<collFile, statsFile>>
     \/ /\ collFile' \in {AbsentFile(NoCollection), CorruptFile(NoCollection),
                          JsonDump(EmptyDict)}
        /\ UNCHANGED <<stateFile, statsFile>>
  /\ exit' = "none"
  /\ ClearSnapshot
  /\ UNCHANGED <<pc, locals, query, io, pureVars>>

Init == MainIdle /\ MergeIdle /\ NormIdle /\ CentroidIdle /\ StatsIdle /\ ProcessIdle

Next ==
  \/ MainStart \/ QueryReturns \/ QueryTimeout \/ QueryHTTPError
  \/ QueryOtherError \/ MainQueryFailed \/ MainConvert \/ MainSaveGeojson
  \/ MainSaveState \/ MainSaveStats \/ Tamper

Spec == Init /\ [][Next]_vars

\* ------------------------------------- merge_geojson on given inputs
Baselines == {NoCollection, EmptyDict}
               \cup {Collection(fs) : fs \in SeqsUpTo(FeaturePool, MaxLen)}
Batches == SeqsUpTo(FeaturePool, MaxLen)

InitMerge ==
  /\ MainIdle /\ NormIdle /\ CentroidIdle /\ StatsIdle /\ ProcessIdle
  /\ mA \in Baselines /\ mB \in Batches
  /\ mOnce = NoCollection /\ mTwice = NoCollection /\ mpc = "start"

\* merge_geojson(A, B)
MergeOnce ==
  /\ mpc = "start"
  /\ mOnce' = merge_geojson(mA, mB)
  /\ mpc' = "once"
  /\ UNCHANGED <<mA, mB, mTwice, mainVars, normVars, centroidVars, statsVars, processVars>>

\* merge_geojson(merge_geojson(A, B), B)
MergeTwice ==
  /\ mpc = "once"
  /\ mTwice' = merge_geojson(mOnce, mB)
  /\ mpc' = "twice"
  /\ UNCHANGED <<mA, mB, mOnce, mainVars, normVars, centroidVars, statsVars, processVars>>

NextMerge == MergeOnce \/ MergeTwice

SpecMerge == InitMerge /\ [][NextMerge]_vars

\* ------------------------- osm_to_geojson_with_timestamps on a given input
InitNorm ==
  /\ MainIdle /\ MergeIdle /\ CentroidIdle /\ StatsIdle /\ ProcessIdle
  /\ nIn \in SeqsUpTo(ElementPool, MaxElems)
  /\ nOut = Returned(<<>>) /\ npc = "start"

Normalize ==
  /\ npc = "start"
  /\ nOut' = osm_to_geojson_with_timestamps(nIn)
  /\ npc' = "done"
  /\ UNCHANGED <<nIn, mainVars, mergeVars, centroidVars, statsVars, processVars>>

NextNorm == Normalize

SpecNorm == InitNorm /\ [][NextNorm]_vars

\* --------------------------------------- compute_centroid on a given input
Positions == {<<x, y>> : x \in {0, 3}, y \in {0, 3}}
Lines == SeqsUpTo(Positions, MaxPts)
Hole == <<<<1, 1>>, <<1, 2>>, <<2, 1>>, <<1, 1>>>>
RingLists == {<<>>} \cup {<<r>> : r \in Lines} \cup {<<r, Hole>> : r \in Lines}
PolygonLists == {<<>>} \cup {<<p>> : p \in RingLists}

Typed(t, C) == {[type |-> t]} \cup {[type |-> t, coordinates |-> c] : c \in C}

GeometryInputs ==
  Typed("Point", {[d1 |-> p] : p \in Positions \cup {<<>>}})
    \cup Typed("LineString", {[d2 |-> l] : l \in Lines})
    \cup Typed("Polygon", {[d3 |-> r] : r \in RingLists})
    \cup Typed("MultiLineString", {[d3 |-> r] : r \in RingLists})
    \cup Typed("MultiPolygon", {[d4 |-> p] : p \in PolygonLists})
    \cup Typed("GeometryCollection", {[d2 |-> l] : l \in Lines})
    \cup {[coordinates |-> [d1 |-> p]] : p \in Positions}

InitCentroid ==
  /\ MainIdle /\ MergeIdle /\ NormIdle /\ StatsIdle /\ ProcessIdle
  /\ cGeom \in GeometryInputs
  /\ cRes = NoneResult /\ cpc = "start"

Reduce ==
  /\ cpc = "start"
  /\ cRes' = compute_centroid(cGeom)
  /\ cpc' = "done"
  /\ UNCHANGED <<cGeom, mainVars, mergeVars, normVars, statsVars, processVars>>

NextCentroid == Reduce

SpecCentroid == InitCentroid /\ [][NextCentroid]_vars

\* ---------------------------------- analyze_contributions on a given input
\* a feature as the aggregator reads it: f["properties"] with its "user"
UserFeature(u) ==
  [type |-> "Feature", properties |-> [user |-> u, timestamp |-> 2026012110]]
AnonFeature ==
  [type |-> "Feature", properties |-> [timestamp |-> 2026012309]]

\* k features of k different contributors "1" .. "k"
Crowd(k) == [i \in 1..k |-> UserFeature(ToString(i))]
CrowdSizes == 0..MaxUsers

\* features put before and after the crowd: of its first contributor, of the
\* first one past the cut of line 289, of user None and of no user at all
ExtraPool == {UserFeature("1"), UserFeature(ToString(TopN + 1)),
              UserFeature(None), AnonFeature}
Extras == SeqsUpTo(ExtraPool, 1)

InitStats ==
  /\ MainIdle /\ MergeIdle /\ NormIdle /\ CentroidIdle /\ ProcessIdle
  /\ \E k \in CrowdSizes : \E pre \in Extras : \E post \in Extras :
       aIn = pre \o Crowd(k) \o post
  /\ aOut = NoFeatures /\ apc = "start"

Analyze ==
  /\ apc = "start"
  /\ aOut' = analyze_contributions(aIn)
  /\ apc' = "done"
  /\ UNCHANGED <<aIn, mainVars, mergeVars, normVars, centroidVars, processVars>>

NextStats == Analyze

SpecStats == InitStats /\ [][NextStats]_vars

\* ---------------------------------------- process_geojson on a given input
GPoint == [type |-> "Point", coordinates |-> [d1 |-> <<3, 0>>]]
GPointEmpty == [type |-> "Point", coordinates |-> [d1 |-> <<>>]]
GPolygon == [type |-> "Polygon", coordinates |-> [d3 |-> <<Hole>>]]
GPolygonNoRings == [type |-> "Polygon", coordinates |-> [d3 |-> <<>>]]
GUnknown == [type |-> "GeometryCollection"]
GEmptyDict == [k \in {} |-> None]

PBuilding == [osm_id |-> "1", user |-> "ana", building |-> "yes"]
PBuildingEmpty == [osm_id |-> "2", user |-> "bo", building |-> ""]
PBuildingNull == [osm_id |-> "3", user |-> "cy", building |-> None]
PHighway == [osm_id |-> "4", user |-> "ana", highway |-> "road"]

Source(p, g) == [type |-> "Feature", properties |-> p, geometry |-> g]

SourcePool ==
  {Source(PBuilding, g) : g \in {GPoint, GPointEmpty, GPolygon,
                                  GPolygonNoRings, GUnknown, GEmptyDict}}
    \cup {[type |-> "Feature", properties |-> PBuilding]}
    \cup {Source(PBuildingEmpty, g) : g \in {GPoint, GPolygon}}
    \cup {Source(PBuildingNull, GPoint)}
    \cup {Source(PHighway, g) : g \in {GPolygon, GPolygonNoRings}}
    \cup {[type |-> "Feature", geometry |-> GPoint]}

InitProcess ==
  /\ MainIdle /\ MergeIdle /\ NormIdle /\ CentroidIdle /\ StatsIdle
  /\ pIn \in SeqsUpTo(SourcePool, MaxLen)
  /\ pOut = ProcessRaised /\ ppc = "start"

Process ==
  /\ ppc = "start"
  /\ pOut' = process_geojson(pIn)
  /\ ppc' = "done"
  /\ UNCHANGED <<pIn, mainVars, mergeVars, normVars, centroidVars, statsVars>>

NextProcess == Process

SpecProcess == InitProcess /\ [][NextProcess]_vars

\* ================================================================== claims
Keys(features) == {Key(features[i]) : i \in 1..Len(features)}
FullKey(k) == k[1] # None /\ k[2] # None
WithKey(features, k) == {i \in 1..Len(features) : Key(features[i]) = k}
PartialCount(features) ==
  Cardinality({i \in 1..Len(features) : ~ FullKey(Key(features[i]))})

\* C1: merging the same batch B a second time into merge_geojson(A, B)
\* gives the feature sequence of merge_geojson(A, B), for a baseline A that
\* is present or absent.
C1_MergeIdempotent ==
  mpc = "twice" => mTwice.features = mOnce.features

\* C2: with a present baseline, every key that occurs in both the baseline
\* and the batch has exactly one feature in the result and that feature is
\* the incoming one, whole; every baseline feature whose key the batch does
\* not touch is in the result unchanged.
C2_MergeUpsert ==
  (mpc = "once" /\ Truthy(mA)) =>
    /\ \A k \in Keys(mA.features) \cap Keys(mB) :
         /\ Cardinality(WithKey(mOnce.features, k)) = 1
         /\ \A i \in WithKey(mOnce.features, k) :
              \E j \in WithKey(mB, k) : mOnce.features[i] = mB[j]
    /\ \A i \in 1..Len(mA.features) :
         Key(mA.features[i]) \notin Keys(mB) =>
           \E j \in 1..Len(mOnce.features) : mOnce.features[j] = mA.features[i]

\* C3: whatever runs have happened, the persisted collection holds no two
\* features with the same fully populated identity key.
C3_KeysUnique ==
  (collFile.kind = "json") =>
    \A i, j \in 1..Len(collFile.doc.features) :
      (i # j /\ FullKey(Key(collFile.doc.features[i]))) =>
        Key(collFile.doc.features[i]) # Key(collFile.doc.features[j])

\* C4: a run that reads back a persisted collection of N features and merges
\* an empty batch into it ends with exactly those N features, unchanged.
C4_RoundTrip ==
  (pc = "persist" /\ ~ full_refresh /\ Truthy(existing_geojson)
     /\ new_geojson.features = <<>>) =>
    /\ existing_geojson = snapColl.doc
    /\ Len(geojson.features) = Len(existing_geojson.features)
    /\ geojson.features = existing_geojson.features

\* C5: when every attempt times out, exactly max_retries requests are made
\* and the timeout is raised; when all but the last allowed attempt time
\* out and that one succeeds, its result is returned after max_retries
\* requests; no request is ever made beyond those.
AllTimeouts == \A i \in 1..Len(outcomes) : outcomes[i] = Timeout
TimeoutsThenOk ==
  /\ Len(outcomes) = max_retries
  /\ \A i \in 1..(max_retries - 1) : outcomes[i] = Timeout
  /\ outcomes[max_retries] = Ok
C5_RetryBudget ==
  /\ requests = Len(outcomes) /\ requests <= max_retries
  /\ (AllTimeouts /\ pc # "query" /\ outcomes # <<>>) =>
       (requests = max_retries /\ qret = "raised" /\ pc = "query_raised")
  /\ (AllTimeouts /\ pc = "query") => requests < max_retries
  /\ TimeoutsThenOk => (qret = "returned" /\ pc = "convert")

C5_Witness_Exhausted ==
  qret = "raised" /\ outcomes = <<Timeout, Timeout, Timeout>>

\* C6: a run that ends because the query failed, or because a step before
\* the collection is written failed, leaves the collection file, the state
\* record and the statistics document as it found them; so does every step
\* of a run up to the write of the collection.
FilesAsFound ==
  collFile = snapColl /\ stateFile = snapState /\ statsFile = snapStats
C6_FailedRunWritesNothing ==
  /\ exit \in {"query_error", "crash_start", "crash_convert"} => FilesAsFound
  /\ pc \in {"query", "query_raised", "convert", "persist"} => FilesAsFound

C6_Witness_FailedAfterSuccess ==
  /\ exit = "query_error" /\ pc = "idle"
  /\ collFile.kind = "json" /\ stateFile.kind = "json" /\ statsFile.kind = "json"

C8_ReducerTotal ==
  cpc = "done" =>
    /\ cRes.kind # "raise"
    /\ (cRes.kind = "value" /\ "d1" \in DOMAIN cRes.val) => Len(cRes.val.d1) = 2
    /\ (Get(cGeom, "type") = "Point" /\ "coordinates" \in DOMAIN cGeom) =>
         cRes = Value(cGeom["coordinates"])

\* C9: the conversion of a list of records never aborts: it returns one
\* feature for each well-formed record, in order, and drops the others.
RECURSIVE SelectWellFormed(_)
SelectWellFormed(elements) ==
  IF elements = <<>> THEN <<>>
  ELSE IF Head(elements) \in WellFormedPool
    THEN <<Head(elements)>> \o SelectWellFormed(Tail(elements))
    ELSE SelectWellFormed(Tail(elements))
C9_MalformedDropped ==
  npc = "done" =>
    /\ nOut.kind = "ok"
    /\ LET kept == SelectWellFormed(nIn)
       IN /\ Len(nOut.features) = Len(kept)
          /\ \A i \in 1..Len(kept) :
               nOut.features[i].properties = ElementProperties(kept[i])

\* C10: a feature whose key has a null component is always added by
\* merge_geojson: the result holds as many such features as the baseline
\* and the batch together.
C10_PartialKeysKept ==
  mpc = "once" =>
    PartialCount(mOnce.features) = PartialCount(mA.features) + PartialCount(mB)

\* C11: an attempt that fails with an HTTP status other than 429 and 5xx,
\* or with a transport error that is not a timeout, is the last attempt of
\* the call whatever its index: the error is raised at once, no sleep
\* follows it and no further request is made.
NonTransient(o) ==
  \/ o.kind = "connection"
  \/ o.kind = "http" /\ o.status # 429 /\ o.status < 500
C11_NonTransientNotRetried ==
  \A i \in 1..Len(outcomes) :
    NonTransient(outcomes[i]) =>
      /\ i = Len(outcomes)
      /\ pc = "query_raised" /\ qret = "raised"
      /\ requests = i
      /\ Len(sleeps) = i - 1

C11_Witness_RaisedAtSecondAttempt ==
  /\ pc = "query_raised" /\ Len(outcomes) = 2
  /\ outcomes[1] = Timeout /\ NonTransient(outcomes[2])

\* C15: timeouts and retryable server errors draw on one attempt budget:
\* whatever their interleaving, at most max_retries requests are made, every
\* sleep is followed by a further attempt (none after the last one), and the
\* call ends by returning the parsed response or by raising, never by
\* leaving the loop without a value.
Transient(o) ==
  \/ o.kind = "timeout"
  \/ o.kind = "http" /\ (o.status = 429 \/ o.status >= 500)
C15_SharedBudget ==
  /\ requests <= max_retries
  /\ Len(sleeps) = attempt /\ attempt <= max_retries - 1
  /\ pc = "query" => Len(sleeps) = requests
  /\ (pc \in {"convert", "query_raised"}) =>
       /\ requests >= 1
       /\ Len(sleeps) = requests - 1
       /\ \A i \in 1..(requests - 1) : Transient(outcomes[i])
  /\ qret # "none_returned"
  /\ pc = "convert" => (qret = "returned" /\ outcomes[requests] = Ok)
  /\ pc = "query_raised" => (qret = "raised" /\ outcomes[requests] # Ok)

C15_Witness_MixedExhausted ==
  /\ pc = "query_raised" /\ requests = max_retries
  /\ \A i \in 1..max_retries : Transient(outcomes[i])
  /\ \E i, j \in 1..max_retries :
       outcomes[i].kind = "timeout" /\ outcomes[j].kind = "http"

\* C12: a run reads the state record once, at its start, and writes it at
\* most once; when it has written it, the merged collection has already been
\* written to the collection file in the same run; up to that point the
\* state record is as the run found it.
C12_StateWriteOrdering ==
  /\ pc # "idle" => stateReads = 1
  /\ stateWrites <= 1 /\ collWrites <= 1
  /\ (pc \in {"query", "query_raised", "convert", "persist", "save_state"}) =>
       stateWrites = 0
  /\ (pc \in {"query", "query_raised", "convert", "persist"}) =>
       (collWrites = 0 /\ stateFile = snapState)
  /\ stateWrites = 1 =>
       /\ pc = "stats" /\ collWrites = 1
       /\ collFile = JsonDump(geojson)
       /\ stateFile = JsonDump(state)

C12_Witness_StateAfterCollection ==
  /\ pc = "stats" /\ stateWrites = 1 /\ collWrites = 1
  /\ Len(collFile.doc.features) > 0
  /\ GetTs(stateFile.doc, "last_update") \in Nows

\* C14: for a non-empty collection top_contributors has at most 20 entries
\* (all contributors when there are no more than 20), each with the number
\* of features of its contributor, in order of non-increasing count and,
\* among equal counts, of first encounter in the collection, and no
\* contributor left out has more features than a listed one; for an empty
\* collection the result is the "No features found" signal.
Contributors(features) == {UserOf(features[i]) : i \in 1..Len(features)}
Listed(top) == {top[i].user : i \in 1..Len(top)}
C14_TopContributors ==
  apc = "done" =>
    IF aIn = <<>> THEN aOut = NoFeatures
    ELSE LET top == aOut.top_contributors
             all == Contributors(aIn)
         IN /\ aOut # NoFeatures
            /\ Len(top) <= 20
            /\ Len(top) = 20 \/ Len(top) = Cardinality(all)
            /\ Cardinality(Listed(top)) = Len(top)
            /\ \A i \in 1..Len(top) :
                 /\ top[i].user \in all
                 /\ top[i].count = UserCount(aIn, top[i].user)
            /\ \A i, j \in 1..Len(top) :
                 i < j =>
                   \/ top[i].count > top[j].count
                   \/ /\ top[i].count = top[j].count
                      /\ UserFirst(aIn, top[i].user) < UserFirst(aIn, top[j].user)
            /\ \A u \in all \ Listed(top) : \A i \in 1..Len(top) :
                 UserCount(aIn, u) <= top[i].count

C14_Witness_CutAtTwenty ==
  /\ apc = "done" /\ Cardinality(Contributors(aIn)) > 20
  /\ Len(aOut.top_contributors) = 20
  /\ aOut.top_contributors[1].count = 2
  /\ aOut.top_contributors[1].user = ToString(TopN + 1)

\* C13: with the default predicate the centroid pass returns, in input
\* order, one Point feature for each input feature that has a truthy
\* building tag and a reducible geometry, with the source's properties
\* unchanged; the other features that have a truthy building tag are counted
\* as skipped, so produced + skipped is the number of features with a truthy
\* building tag, and the recorded feature count is the number produced.
TruthyBuilding(f) ==
  /\ "properties" \in DOMAIN f
  /\ Get(f.properties, "building") \notin {None, ""}
Reducible(f) ==
  /\ "geometry" \in DOMAIN f
  /\ LET res == compute_centroid(f.geometry)
     IN res.kind = "value" /\ ~ NoCentroid(res)
RECURSIVE SelectReducibleBuildings(_)
SelectReducibleBuildings(features) ==
  IF features = <<>> THEN <<>>
  ELSE IF TruthyBuilding(Head(features)) /\ Reducible(Head(features))
    THEN <<Head(features)>> \o SelectReducibleBuildings(Tail(features))
    ELSE SelectReducibleBuildings(Tail(features))
PassingCount(features) ==
  Cardinality({i \in 1..Len(features) : TruthyBuilding(features[i])})
C13_CentroidPass ==
  ppc = "done" =>
    /\ pOut.kind = "ok"
    /\ LET src == SelectReducibleBuildings(pIn)
       IN /\ Len(pOut.features) = Len(src)
          /\ \A i \in 1..Len(src) :
               /\ pOut.features[i].properties = src[i].properties
               /\ pOut.features[i].geometry.type = "Point"
               /\ pOut.features[i].geometry.coordinates
                    = compute_centroid(src[i].geometry).val
    /\ Len(pOut.features) + pOut.skipped = PassingCount(pIn)
    /\ pOut.feature_count = Len(pOut.features)
    /\ pOut.returned = Len(pOut.features)

====
